---- MODULE Spec2Model ----
EXTENDS Integers, Sequences, FiniteSets, TLC

\* Maze search engine of Lecture_1/practice_project/maze.py.
\* Cells are <<row, col>> pairs (0-based); a search node lives in an arena
\* (a sequence of [state, parent, action] records, parent 0 for the root) and
\* frontiers hold arena indices, so a node's parent chain is a chain of indices.

GridH == 2
GridW == 3
MaxRuns == 2
MaxAdds == 4
MaxLen == 4
WideH == GridH + 1
WideW == GridW
NbrH == GridH + 1
NbrW == GridW

GridCells(h, w) == (0 .. h - 1) \X (0 .. w - 1)
Cells == GridCells(GridH, GridW)
NoCell == <<-1, -1>>
None == "None"
Terminal == {"solved", "nosol"}

VARIABLES gh, gw, walls, start, goal, pc, frontier, nodes, explored,
          numExplored, solution, run,
          prevPc, prevSolution, prevNum, prevExplored,
          fkind, ffr, fnodes, fop, fout, ferr, fcont,
          nwalls, ncell, nout,
          contents, ppc, perr, pheight, pwidth, pwalls, pstart, pgoal

solveVars == <<gh, gw, walls, start, goal, pc, frontier, nodes, explored,
               numExplored, solution, run,
               prevPc, prevSolution, prevNum, prevExplored>>

frontierVars == <<fkind, ffr, fnodes, fop, fout, ferr, fcont>>
nbrVars == <<nwalls, ncell, nout>>
parseVars == <<contents, ppc, perr, pheight, pwidth, pwalls, pstart, pgoal>>

vars == <<solveVars, frontierVars, nbrVars, parseVars>>

\* ---------------------------------------------------------------- Maze.neighbors
CandidatesDownFirst(state) ==
  LET row == state[1]
      col == state[2]
  IN << <<"down", <<row + 1, col>>>>,
        <<"up", <<row - 1, col>>>>,
        <<"left", <<row, col - 1>>>>,
        <<"right", <<row, col + 1>>>> >>

CandidatesSwapped(state) ==
  LET row == state[1]
      col == state[2]
  IN << <<"up", <<row - 1, col>>>>,
        <<"down", <<row + 1, col>>>>,
        <<"right", <<row, col + 1>>>>,
        <<"left", <<row, col - 1>>>> >>

Candidates(state) ==
  LET row == state[1]
      col == state[2]
  IN << <<"up", <<row - 1, col>>>>,
        <<"down", <<row + 1, col>>>>,
        <<"left", <<row, col - 1>>>>,
        <<"right", <<row, col + 1>>>> >>

Valid(h, w, ws, rc) ==
  0 <= rc[1] /\ rc[1] < h /\ 0 <= rc[2] /\ rc[2] < w /\ rc \notin ws

Neighbors(h, w, ws, state) ==
  SelectSeq(Candidates(state), LAMBDA cand : Valid(h, w, ws, cand[2]))

\* ---------------------------------------------------------------- frontiers
IsEmptyNever(fr) == FALSE

IsEmpty(fr) == Len(fr) = 0

StackRemoveFirst(fr) ==
  IF IsEmpty(fr) THEN [err |-> "empty frontier", node |-> 0, fr |-> fr]
  ELSE IF Len(fr) = 0 THEN [err |-> "IndexError", node |-> 0, fr |-> fr]
  ELSE [err |-> "none", node |-> fr[1], fr |-> SubSeq(fr, 2, Len(fr))]

\* StackFrontier.remove: pop() the last element; [].pop() raises IndexError
StackRemove(fr) ==
  IF IsEmpty(fr) THEN [err |-> "empty frontier", node |-> 0, fr |-> fr]
  ELSE IF Len(fr) = 0 THEN [err |-> "IndexError", node |-> 0, fr |-> fr]
  ELSE [err |-> "none", node |-> fr[Len(fr)], fr |-> SubSeq(fr, 1, Len(fr) - 1)]

\* QueueFrontier.remove: frontier[0], then frontier = frontier[1:]
QueueRemove(fr) ==
  IF IsEmpty(fr) THEN [err |-> "empty frontier", node |-> 0, fr |-> fr]
  ELSE IF Len(fr) = 0 THEN [err |-> "IndexError", node |-> 0, fr |-> fr]
  ELSE [err |-> "none", node |-> fr[1], fr |-> SubSeq(fr, 2, Len(fr))]

Remove(kind, fr) == IF kind = "stack" THEN StackRemove(fr) ELSE QueueRemove(fr)

ContainsStateNever(fr, nds, s) == FALSE

\* StackFrontier.contains_state
ContainsState(fr, nds, s) == \E i \in 1 .. Len(fr) : nds[fr[i]].state = s

\* ---------------------------------------------------------------- Maze.solve
FreshNoExplored(s, fr, nds, expl) == ~ContainsState(fr, nds, s)

FreshNoContains(s, fr, nds, expl) == s \notin expl

\* the test guarding frontier.add(child)
Fresh(s, fr, nds, expl) == ~ContainsState(fr, nds, s) /\ s \notin expl

RECURSIVE AddChildren(_, _, _, _, _)
AddChildren(nbrs, fr, nds, expl, p) ==
  IF nbrs = << >> THEN [fr |-> fr, nds |-> nds]
  ELSE LET a == Head(nbrs)[1]
           s == Head(nbrs)[2]
       IN IF Fresh(s, fr, nds, expl)
          THEN AddChildren(Tail(nbrs), Append(fr, Len(nds) + 1),
                           Append(nds, [state |-> s, parent |-> p, action |-> a]),
                           expl, p)
          ELSE AddChildren(Tail(nbrs), fr, nds, expl, p)

\* while node.parent is not None: actions.append(...); cells.append(...)
RECURSIVE TraceBack(_, _, _, _)
TraceBack(nds, i, acts, cls) ==
  IF nds[i].parent = 0 THEN <<acts, cls>>
  ELSE TraceBack(nds, nds[i].parent, Append(acts, nds[i].action),
                 Append(cls, nds[i].state))

Reverse(s) == [k \in 1 .. Len(s) |-> s[Len(s) - k + 1]]

BuildSolutionNoReverse(nds, i) ==
  LET t == TraceBack(nds, i, << >>, << >>)
  IN <<t[1], t[2]>>

BuildSolution(nds, i) ==
  LET t == TraceBack(nds, i, << >>, << >>)
  IN <<Reverse(t[1]), Reverse(t[2])>>

Root(s) == [state |-> s, parent |-> 0, action |-> "none"]

\* exploration cap: never binding for the code (num_explored <= #cells)
MaxExplored == gh * gw

\* ---------------------------------------------------------------- idle parts
SolveIdle ==
  /\ gh = 0 /\ gw = 0 /\ walls = {} /\ start = NoCell /\ goal = NoCell
  /\ pc = "idle" /\ frontier = << >> /\ nodes = << >> /\ explored = {}
  /\ numExplored = 0 /\ solution = None /\ run = 0
  /\ prevPc = "idle" /\ prevSolution = None /\ prevNum = 0 /\ prevExplored = {}

FrontierIdle ==
  /\ fkind = "stack" /\ ffr = << >> /\ fnodes = << >> /\ fop = "none"
  /\ fout = 0 /\ ferr = "none" /\ fcont = None

NbrIdle == nwalls = {} /\ ncell = NoCell /\ nout = None

ParseIdle ==
  /\ contents = << >> /\ ppc = "none" /\ perr = "none" /\ pheight = 0
  /\ pwidth = 0 /\ pwalls = << >> /\ pstart = NoCell /\ pgoal = NoCell

\* a constructed maze: start and goal distinct open cells, any other walls
MazeInit(h, w, starts) ==
  /\ gh = h /\ gw = w
  /\ \E s \in starts : \E g \in GridCells(h, w) \ {s} :
       \E ws \in SUBSET (GridCells(h, w) \ {s, g}) :
         /\ start = s /\ goal = g /\ walls = ws
  /\ pc = "idle"
  /\ frontier = << >>
  /\ nodes = << >>
  /\ explored = {}
  /\ numExplored = 0
  /\ solution = None
  /\ run = 0
  /\ prevPc = "idle"
  /\ prevSolution = None
  /\ prevNum = 0
  /\ prevExplored = {}
  /\ FrontierIdle /\ NbrIdle /\ ParseIdle

Init == MazeInit(GridH, GridW, Cells)

SolveStartKeepCount ==
  /\ pc \in {"idle"} \cup Terminal
  /\ run < MaxRuns
  /\ run' = run + 1
  /\ prevPc' = pc
  /\ prevSolution' = solution
  /\ prevNum' = numExplored
  /\ prevExplored' = explored
  /\ UNCHANGED numExplored
  /\ nodes' = << Root(start) >>
  /\ frontier' = << 1 >>
  /\ explored' = {}
  /\ pc' = "loop"
  /\ UNCHANGED <<gh, gw, walls, start, goal, solution>>
  /\ UNCHANGED <<frontierVars, nbrVars, parseVars>>

SolveStartKeepExplored ==
  /\ pc \in {"idle"} \cup Terminal
  /\ run < MaxRuns
  /\ run' = run + 1
  /\ prevPc' = pc
  /\ prevSolution' = solution
  /\ prevNum' = numExplored
  /\ prevExplored' = explored
  /\ numExplored' = 0
  /\ nodes' = << Root(start) >>
  /\ frontier' = << 1 >>
  /\ UNCHANGED explored
  /\ pc' = "loop"
  /\ UNCHANGED <<gh, gw, walls, start, goal, solution>>
  /\ UNCHANGED <<frontierVars, nbrVars, parseVars>>

\* solve(): lines 222-231 (prev* record the previous call's diagnostics)
SolveStart ==
  /\ pc \in {"idle"} \cup Terminal
  /\ run < MaxRuns
  /\ run' = run + 1
  /\ prevPc' = pc
  /\ prevSolution' = solution
  /\ prevNum' = numExplored
  /\ prevExplored' = explored
  /\ numExplored' = 0
  /\ nodes' = << Root(start) >>
  /\ frontier' = << 1 >>
  /\ explored' = {}
  /\ pc' = "loop"
  /\ UNCHANGED <<gh, gw, walls, start, goal, solution>>
  /\ UNCHANGED <<frontierVars, nbrVars, parseVars>>

\* one iteration of the while-loop, lines 234-265; the frontier is always a
\* StackFrontier (line 227)
Step ==
  /\ pc = "loop"
  /\ numExplored <= MaxExplored
  /\ UNCHANGED <<gh, gw, walls, start, goal, run,
                 prevPc, prevSolution, prevNum, prevExplored>>
  /\ UNCHANGED <<frontierVars, nbrVars, parseVars>>
  /\ IF IsEmpty(frontier)
     THEN /\ pc' = "nosol"
          /\ UNCHANGED <<frontier, nodes, explored, numExplored, solution>>
     ELSE LET r == StackRemove(frontier)
          IN IF r.err /= "none"
             THEN /\ pc' = "error"
                  /\ UNCHANGED <<frontier, nodes, explored, numExplored, solution>>
             ELSE LET n == r.node
                      st == nodes[n].state
                  IN /\ numExplored' = numExplored + 1
                     /\ IF st = goal
                        THEN /\ pc' = "solved"
                             /\ solution' = BuildSolution(nodes, n)
                             /\ frontier' = r.fr
                             /\ UNCHANGED <<nodes, explored>>
                        ELSE LET ex == explored \cup {st}
                                 res == AddChildren(Neighbors(gh, gw, walls, st),
                                                    r.fr, nodes, ex, n)
                             IN /\ explored' = ex
                                /\ frontier' = res.fr
                                /\ nodes' = res.nds
                                /\ UNCHANGED <<pc, solution>>

Next == SolveStart \/ Step

Spec == Init /\ [][Next]_vars

LiveSpec == Spec /\ WF_vars(SolveStart) /\ WF_vars(Step)

\* mazes one row taller, searched from the top-left corner
WideInit == MazeInit(WideH, WideW, {<<0, 0>>})

WideSpec == WideInit /\ [][Next]_vars

\* ---------------------------------------------------------------- frontier use
\* A frontier driven directly through add / remove / contains_state; node ids
\* are arena indices, handed out in the order the nodes are added.
FStates == {<<0, 0>>, <<0, 1>>}

FrontierInit ==
  /\ SolveIdle /\ NbrIdle /\ ParseIdle
  /\ fkind \in {"stack", "queue"}
  /\ ffr = << >> /\ fnodes = << >> /\ fop = "none"
  /\ fout = 0 /\ ferr = "none" /\ fcont = None

\* StackFrontier.add: self.frontier.append(node)
FAdd ==
  /\ Len(fnodes) < MaxAdds
  /\ \E s \in FStates :
       /\ fnodes' = Append(fnodes, Root(s))
       /\ ffr' = Append(ffr, Len(fnodes) + 1)
  /\ fop' = "add" /\ fout' = 0 /\ ferr' = "none" /\ fcont' = None
  /\ UNCHANGED <<fkind, solveVars, nbrVars, parseVars>>

\* StackFrontier.remove / QueueFrontier.remove
FRemove ==
  LET r == Remove(fkind, ffr)
  IN /\ ffr' = r.fr
     /\ fout' = r.node
     /\ ferr' = r.err
     /\ fop' = "remove" /\ fcont' = None
     /\ UNCHANGED <<fkind, fnodes, solveVars, nbrVars, parseVars>>

\* StackFrontier.contains_state
FContains ==
  /\ \E s \in FStates : fcont' = <<s, ContainsState(ffr, fnodes, s)>>
  /\ fop' = "contains" /\ fout' = 0 /\ ferr' = "none"
  /\ UNCHANGED <<fkind, ffr, fnodes, solveVars, nbrVars, parseVars>>

FrontierNext == FAdd \/ FRemove \/ FContains

FrontierSpec == FrontierInit /\ [][FrontierNext]_vars

\* ---------------------------------------------------------------- neighbors use
NbrInit ==
  /\ SolveIdle /\ FrontierIdle /\ ParseIdle
  /\ nwalls \in SUBSET GridCells(NbrH, NbrW)
  /\ ncell \in GridCells(NbrH, NbrW)
  /\ nout = None

\* a call of Maze.neighbors(ncell) on the grid with walls nwalls
NQuery ==
  /\ nout = None
  /\ nout' = Neighbors(NbrH, NbrW, nwalls, ncell)
  /\ UNCHANGED <<nwalls, ncell, solveVars, frontierVars, parseVars>>

NbrNext == NQuery

NbrSpec == NbrInit /\ [][NbrNext]_vars

\* ---------------------------------------------------------------- Maze.__init__
NL == "\n"
Chars == {"A", "B", " ", "#", NL}

Count(s, ch) == Cardinality({i \in 1 .. Len(s) : s[i] = ch})

\* str.splitlines() on text whose only line break is "\n"
RECURSIVE SplitAcc(_, _, _, _)
SplitAcc(s, i, cur, acc) ==
  IF i > Len(s) THEN IF cur = << >> THEN acc ELSE Append(acc, cur)
  ELSE IF s[i] = NL THEN SplitAcc(s, i + 1, << >>, Append(acc, cur))
  ELSE SplitAcc(s, i + 1, Append(cur, s[i]), acc)

SplitLines(s) == SplitAcc(s, 1, << >>, << >>)

\* contents[i][j], with an IndexError past the end of a row read as "pad"
CharAt(lines, i, j) == IF j <= Len(lines[i]) THEN lines[i][j] ELSE "pad"

\* the (0-based) cell scanned with character ch, NoCell if the scan misses it
ScanFor(lines, w, ch) ==
  IF \E i \in 1 .. Len(lines), j \in 1 .. w : CharAt(lines, i, j) = ch
  THEN CHOOSE rc \in (0 .. Len(lines) - 1) \X (0 .. w - 1) :
         CharAt(lines, rc[1] + 1, rc[2] + 1) = ch
  ELSE NoCell

ParseInit ==
  /\ SolveIdle /\ FrontierIdle /\ NbrIdle
  /\ contents \in UNION {[1 .. n -> Chars] : n \in 0 .. MaxLen}
  /\ ppc = "init" /\ perr = "none" /\ pheight = 0 /\ pwidth = 0
  /\ pwalls = << >> /\ pstart = NoCell /\ pgoal = NoCell

Construct ==
  /\ ppc = "init"
  /\ UNCHANGED <<contents, solveVars, frontierVars, nbrVars>>
  /\ IF Count(contents, "A") /= 1
     THEN /\ ppc' = "failed" /\ perr' = "maze must have exactly one start point"
          /\ UNCHANGED <<pheight, pwidth, pwalls, pstart, pgoal>>
     ELSE IF Count(contents, "B") /= 1
     THEN /\ ppc' = "failed" /\ perr' = "maze must have exactly one goal"
          /\ UNCHANGED <<pheight, pwidth, pwalls, pstart, pgoal>>
     ELSE LET lines == SplitLines(contents)
              h == Len(lines)
              w == Len(lines[1])
          IN /\ ppc' = "built" /\ perr' = "none"
             /\ pheight' = h
             /\ pwidth' = w
             /\ pwalls' = [i \in 1 .. h |-> [j \in 1 .. w |->
                             CharAt(lines, i, j) \notin {"A", "B", " ", "pad"}]]
             /\ pstart' = ScanFor(lines, w, "A")
             /\ pgoal' = ScanFor(lines, w, "B")

ParseNext == Construct

ParseSpec == ParseInit /\ [][ParseNext]_vars

\* ---------------------------------------------------------------- properties

NbrCells(c) == {Neighbors(gh, gw, walls, c)[k][2] :
                  k \in 1 .. Len(Neighbors(gh, gw, walls, c))}

\* cells within k moves of start
RECURSIVE ReachIn(_)
ReachIn(k) ==
  IF k = 0 THEN {start}
  ELSE LET prev == ReachIn(k - 1)
       IN prev \cup UNION {NbrCells(c) : c \in prev}

ReachableSet == ReachIn(gh * gw)

Solvable == goal \in ReachableSet

\* brute-force breadth-first distance from start to goal
BFSDist == CHOOSE k \in 0 .. gh * gw :
             goal \in ReachIn(k) /\ (k = 0 \/ goal \notin ReachIn(k - 1))

Done == pc \in Terminal

\* the step from cell c to cell d labelled a is a neighbors() transition
IsMove(c, a, d) ==
  \E k \in 1 .. Len(Neighbors(gh, gw, walls, c)) :
    Neighbors(gh, gw, walls, c)[k] = <<a, d>>

ValidSolution(sol) ==
  LET acts == sol[1]
      cls == sol[2]
  IN /\ Len(acts) = Len(cls)
     /\ Len(cls) >= 1
     /\ IsMove(start, acts[1], cls[1])
     /\ \A k \in 2 .. Len(cls) : IsMove(cls[k - 1], acts[k], cls[k])
     /\ cls[Len(cls)] = goal

\* C1: on a solvable grid, solve ends with a solution whose number of
\* actions is the BFS distance from start to goal (the claim's queue
\* discipline; solve has no other frontier than StackFrontier, line 227).
SolveShortest ==
  (Done /\ Solvable) =>
     /\ pc = "solved"
     /\ Len(solution[1]) = BFSDist

\* C2: with the stack (LIFO) discipline on a solvable grid, solve ends with a
\* valid solution: equal lengths, first cell a neighbour of start reached by
\* the first action, each step a labelled neighbors() transition, last cell goal.
StackValid ==
  (Done /\ Solvable) =>
     /\ pc = "solved"
     /\ ValidSolution(solution)

StackValidWitness ==
  pc = "solved" /\ Len(solution[2]) >= 3

\* C3: every started solve loop eventually terminates, with a solution or
\* with 'no solution'.
SolveTerminates == (pc = "loop") ~> Done

SolveTerminatesWitness == pc = "nosol" /\ numExplored >= 2

\* C4: on a grid whose goal is unreachable, solve fails with 'no solution',
\* leaves solution absent, and num_explored is the number of cells reachable
\* from start.
NoSolutionCount ==
  (Done /\ ~Solvable) =>
     /\ pc = "nosol"
     /\ solution = None
     /\ numExplored = Cardinality(ReachableSet)

NoSolutionCountWitness ==
  pc = "nosol" /\ numExplored = 3

\* C8: a second solve on the same grid and discipline produces the same
\* outcome, solution, exploration count and explored set as the first.
SolveDeterministic ==
  (run = 2 /\ Done) =>
     /\ pc = prevPc
     /\ solution = prevSolution
     /\ numExplored = prevNum
     /\ explored = prevExplored

SolveDeterministicWitness ==
  run = 2 /\ pc = "solved" /\ prevPc = "solved" /\ numExplored >= 3

RECURSIVE ChainValid(_)
ChainValid(i) ==
  IF nodes[i].parent = 0 THEN nodes[i].state = start /\ i = 1
  ELSE /\ nodes[i].parent < i
       /\ IsMove(nodes[nodes[i].parent].state, nodes[i].action, nodes[i].state)
       /\ ChainValid(nodes[i].parent)

SearchInv ==
  run >= 1 =>
    /\ \A i, j \in 1 .. Len(frontier) :
          i /= j => nodes[frontier[i]].state /= nodes[frontier[j]].state
    /\ \A i \in 1 .. Len(frontier) : nodes[frontier[i]].state \notin explored
    /\ \A i, j \in 1 .. Len(nodes) : i /= j => nodes[i].state /= nodes[j].state
    /\ \A i \in 1 .. Len(frontier) : ChainValid(frontier[i])
    /\ \A i \in 1 .. Len(nodes) : ChainValid(i)
    /\ numExplored <= Cardinality(ReachableSet)

\* C10: in every state of a solve run (looping or terminated) the frontier holds no two nodes with one state, no
\* frontier state is explored, the explored set only grows, every cell is
\* added to the frontier at most once (every node ever created has its own
\* state), every frontier node's parent chain is a neighbour path back to the
\* start node, and num_explored never exceeds the number of reachable cells.
SearchInvariants ==
  /\ []SearchInv
  /\ [][(run' = run) => explored \subseteq explored']_vars

SearchInvariantsWitness ==
  pc = "solved" /\ Len(frontier) >= 1 /\ numExplored >= 3


Held(fr) == {fr[i] : i \in 1 .. Len(fr)}

SetMax(S) == CHOOSE x \in S : \A y \in S : y <= x
SetMin(S) == CHOOSE x \in S : \A y \in S : x <= y

\* C5: remove on a non-empty stack frontier returns the most recently added
\* node still held, on a queue frontier the earliest added one, and the other
\* nodes keep their relative order; contains_state(s) holds exactly when some
\* held node has state s.
FrontierDiscipline ==
  [][ /\ (fop' = "remove" /\ ffr /= << >>) =>
           LET pick == IF fkind = "stack" THEN SetMax(Held(ffr)) ELSE SetMin(Held(ffr))
           IN /\ fout' = pick
              /\ ffr' = SelectSeq(ffr, LAMBDA x : x /= pick)
      /\ (fop' = "contains") =>
           (fcont'[2] <=> \E x \in Held(ffr) : fnodes[x].state = fcont'[1])
    ]_vars

FrontierDisciplineWitness ==
  fop = "remove" /\ fkind = "queue" /\ fout = 2 /\ Len(ffr) >= 2

\* C6: remove on an empty frontier of either discipline fails with
\* 'empty frontier' and leaves the frontier empty.
EmptyRemove ==
  [][ (fop' = "remove" /\ ffr = << >>) =>
        /\ ferr' = "empty frontier"
        /\ ffr' = << >> ]_vars

EmptyRemoveWitness ==
  fop = "remove" /\ ferr = "empty frontier" /\ fkind = "queue" /\ Len(fnodes) >= 1

Dirs == <<"up", "down", "left", "right">>
Delta == [up |-> <<-1, 0>>, down |-> <<1, 0>>, left |-> <<0, -1>>, right |-> <<0, 1>>]
Dest(c, a) == <<c[1] + Delta[a][1], c[2] + Delta[a][2]>>
Rank(a) == CHOOSE k \in 1 .. 4 : Dirs[k] = a

\* C7: neighbors(cell) lists exactly the moves up, down, left, right whose
\* destination is inside [0,height) x [0,width) and not a wall, each once,
\* in the order up, down, left, right.
NeighborsExact ==
  nout /= None =>
    LET ok == {a \in {"up", "down", "left", "right"} :
                 /\ Dest(ncell, a) \in GridCells(NbrH, NbrW)
                 /\ Dest(ncell, a) \notin nwalls}
    IN /\ {nout[k] : k \in 1 .. Len(nout)} = {<<a, Dest(ncell, a)>> : a \in ok}
       /\ Len(nout) = Cardinality(ok)
       /\ \A i, j \in 1 .. Len(nout) : i < j => Rank(nout[i][1]) < Rank(nout[j][1])

NeighborsExactWitness ==
  /\ nout /= None
  /\ Len(nout) = 4

\* 0-based (row, column) of the single occurrence of ch in the text s
MarkerPos(s, ch) ==
  LET idx == CHOOSE i \in 1 .. Len(s) : s[i] = ch
      breaks == {i \in 1 .. idx - 1 : s[i] = NL}
      lineStart == IF breaks = {} THEN 0 ELSE SetMax(breaks)
  IN <<Cardinality(breaks), idx - lineStart - 1>>

\* C9: construction fails when the text has zero or several 'A' or zero or
\* several 'B'; with exactly one of each it succeeds, start and goal are the
\* marker positions and both are open cells.
ParseMarkers ==
  ppc \in {"built", "failed"} =>
    /\ (Count(contents, "A") /= 1 \/ Count(contents, "B") /= 1) => ppc = "failed"
    /\ (Count(contents, "A") = 1 /\ Count(contents, "B") = 1) =>
         /\ ppc = "built"
         /\ pstart = MarkerPos(contents, "A")
         /\ pgoal = MarkerPos(contents, "B")
         /\ ~pwalls[pstart[1] + 1][pstart[2] + 1]
         /\ ~pwalls[pgoal[1] + 1][pgoal[2] + 1]

====
